---- MODULE Spec2Model ----
(***************************************************************************)
(* fsa::bstree<T> (src/bstree.h): an unbalanced binary search tree whose   *)
(* header node aliases root (father), leftmost (right) and rightmost       *)
(* (left).  Two trees share one heap of bst_node cells so that copy        *)
(* assignment and stale pointers can be observed.                          *)
(***************************************************************************)
EXTENDS Integers, Sequences, FiniteSets, TLC

\* ---------------------------------------------------------------- bounds
MaxNodes == 3          \* heap cells available to each tree for real nodes
MaxVal == 3            \* element values are 1..MaxVal
MaxCopyVal == 2        \* values inserted while two trees are in play

\* ------------------------------------------------------------- universe
Trees == {1, 2}                       \* two bstree objects
RealIds == 3..(2 + 2 * MaxNodes)      \* addresses operator new can return
\* the addresses handed out for tree t's nodes: each tree allocates from its
\* own range, and a released cell is the first to be handed out again
Arena(t) == (3 + (t - 1) * MaxNodes)..(2 + t * MaxNodes)
Values == 1..MaxVal
CopyValues == 1..MaxCopyVal
NULL == 0                             \* nullptr
JUNK == 0 - 1                         \* an indeterminate non-null pointer value
Fuel == 2 * MaxNodes + 3              \* more steps than there are cells
Indeterminate == {NULL, JUNK}         \* what an uninitialised link may read as
\* what the two link words of a cell hold before a node is constructed in it:
\* any combination, or (to keep two trees tractable) zero-filled or garbage
AnyCell == Indeterminate \X Indeterminate
ZeroOrGarbage == {<<NULL, NULL>>, <<JUNK, JUNK>>}

VARIABLES
  node,      \* heap: address -> [data, father, left, right]
  live,      \* addresses currently allocated to real nodes
  _size,     \* tree -> bstree::_size
  status,    \* "ok", or "ub" once an operation had undefined behaviour
             \* (it dereferenced or deleted a pointer that names no object);
             \* nothing is modelled after that
  last,      \* the operation that produced this state
  contents,  \* tree -> values inserted and not cleared (history)
  built      \* tree -> how it got here (history): "new", "distinct" (only
             \* inserts of distinct values), "inserts" (only inserts), "mixed"

vars == <<node, live, _size, status, last, contents, built>>

\* history bookkeeping of a completed insert / clear / assign
built_insert(t, _val) ==
  [built EXCEPT ![t] = IF @ = "new" THEN "distinct"
                       ELSE IF @ = "distinct" /\ _val \in contents[t] THEN "inserts"
                       ELSE @]
built_clear(t) == [built EXCEPT ![t] = "mixed"]
built_assign(dst, src) == [built EXCEPT ![dst] = "mixed"]

\* bstree::_header_ptr: tree t's header lives at address t
_header_ptr(t) == t

\* a pointer that may be dereferenced: a header or an allocated node
Valid(p, lv) == p \in Trees \cup lv

\* F applied to the value of x: x is evaluated once, as a C++ argument is
Strict(F(_), x) == CHOOSE r \in {F(v) : v \in {x}} : TRUE

\* a cell that holds no object
Blank == [data |-> 0, father |-> NULL, left |-> NULL, right |-> NULL]

\* operator new for a node of tree t: the lowest free address of its arena
Alloc(lv, t) == CHOOSE n \in Arena(t) \ lv : \A m \in Arena(t) \ lv : n <= m

\* bst_node(T _val, bst_node * _pf): left and right are not initialised
bst_node_leaf(_val, _pf, l, r) ==
  [data |-> _val, father |-> _pf, left |-> l, right |-> r]

\* ------------------------------------------------------------ accessors
_root(t) == node[_header_ptr(t)].father
_left_most(t) == node[_header_ptr(t)].right
_right_most(t) == node[_header_ptr(t)].left
size(t) == _size[t]
empty(t) == _root(t) = _header_ptr(t)
begin(t) == _left_most(t)
end(t) == _header_ptr(t)

\* ---------------------------------------------------------------- insert
\* the search loop of insert with the equality test lost: an equal value
\* descends right like a greater one
RECURSIVE insert_descent_no_equal(_, _, _, _, _, _)
insert_descent_no_equal(nd, lv, _val, _ptr, _prev, fuel) ==
  IF _ptr = NULL THEN [st |-> "attach", prev |-> _prev]
  ELSE IF ~Valid(_ptr, lv) THEN [st |-> "ub", prev |-> _prev]
  ELSE IF fuel = 0 THEN [st |-> "hang", prev |-> _prev]
  ELSE Strict(LAMBDA q : insert_descent_no_equal(nd, lv, _val, q, _ptr, fuel - 1),
              IF _val < nd[_ptr].data THEN nd[_ptr].left ELSE nd[_ptr].right)

\* the search loop of insert
RECURSIVE insert_descent(_, _, _, _, _, _)
insert_descent(nd, lv, _val, _ptr, _prev, fuel) ==
  IF _ptr = NULL THEN [st |-> "attach", prev |-> _prev]
  ELSE IF ~Valid(_ptr, lv) THEN [st |-> "ub", prev |-> _prev]
  ELSE IF fuel = 0 THEN [st |-> "hang", prev |-> _prev]
  ELSE IF _val = nd[_ptr].data THEN [st |-> "dup", prev |-> _ptr]
  ELSE Strict(LAMBDA q : insert_descent(nd, lv, _val, q, _ptr, fuel - 1),
              IF _val < nd[_ptr].data THEN nd[_ptr].left ELSE nd[_ptr].right)

\* the attach step with the comparison lost: the new node always becomes the
\* left child
insert_attach_always_left(nd, n, _val, _prev, l, r) ==
  [nd EXCEPT ![n] = bst_node_leaf(_val, _prev, l, r), ![_prev].left = n]

\* create the new node under _prev
insert_attach(nd, n, _val, _prev, l, r) ==
  IF _val < nd[_prev].data
  THEN [nd EXCEPT ![n] = bst_node_leaf(_val, _prev, l, r), ![_prev].left = n]
  ELSE [nd EXCEPT ![n] = bst_node_leaf(_val, _prev, l, r), ![_prev].right = n]

\* "Adjust left_most and right_most", first if-statement
insert_adjust_left(nd, lv, h) ==
  LET p == nd[h].left IN
  IF ~Valid(p, lv) THEN [ub |-> TRUE, nd |-> nd]
  ELSE IF nd[p].left # NULL THEN [ub |-> FALSE, nd |-> [nd EXCEPT ![h].left = nd[p].left]]
  ELSE [ub |-> FALSE, nd |-> nd]

\* "Adjust left_most and right_most", second if-statement
insert_adjust_right(nd, lv, h) ==
  LET p == nd[h].right IN
  IF ~Valid(p, lv) THEN [ub |-> TRUE, nd |-> nd]
  ELSE IF nd[p].right # NULL THEN [ub |-> FALSE, nd |-> [nd EXCEPT ![h].right = nd[p].right]]
  ELSE [ub |-> FALSE, nd |-> nd]

\* bstree::insert; l, r are what the new node's left and right read as
insert(t, _val, l, r) ==
  LET h == _header_ptr(t)
      n == Alloc(live, t)
      d == insert_descent(node, live, _val, node[h].father, node[h].father, Fuel)
  IN
  /\ status = "ok"
  /\ last' = [op |-> "insert", t |-> t, v |-> _val, stored |-> _val \in contents[t]]
  /\ UNCHANGED _size
  /\ IF empty(t) THEN
       /\ Arena(t) \ live # {}
       /\ node' = [node EXCEPT ![n] = bst_node_leaf(_val, h, l, r),
                               ![h] = [@ EXCEPT !.father = n, !.left = n, !.right = n]]
       /\ live' = live \cup {n}
       /\ status' = "ok"
       /\ contents' = [contents EXCEPT ![t] = @ \cup {_val}]
       /\ built' = built_insert(t, _val)
     ELSE IF d.st = "dup" THEN
       /\ UNCHANGED <<node, live, status>>
       /\ contents' = [contents EXCEPT ![t] = @ \cup {_val}]
       /\ built' = built_insert(t, _val)
     ELSE IF d.st # "attach" THEN
       /\ status' = "ub"
       /\ UNCHANGED <<node, live, contents, built>>
     ELSE
       /\ Arena(t) \ live # {}
       /\ LET nd1 == insert_attach(node, n, _val, d.prev, l, r)
              lv1 == live \cup {n}
              a == insert_adjust_left(nd1, lv1, h)
              b == insert_adjust_right(a.nd, lv1, h)
          IN IF a.ub \/ b.ub
             THEN /\ status' = "ub"
                  /\ UNCHANGED <<node, live, contents, built>>
             ELSE /\ node' = b.nd
                  /\ live' = lv1
                  /\ status' = "ok"
                  /\ contents' = [contents EXCEPT ![t] = @ \cup {_val}]
                  /\ built' = built_insert(t, _val)

\* ----------------------------------------------------------------- clear
\* delete p: ~bst_node deletes left and right, then the cell is released
RECURSIVE destroy(_, _, _, _)
destroy(nd, lv, p, fuel) ==
  IF p = NULL THEN [ub |-> FALSE, lv |-> lv]
  ELSE IF p \notin lv \/ fuel = 0 THEN [ub |-> TRUE, lv |-> lv]
  ELSE Strict(LAMBDA a :
         IF a.ub THEN a
         ELSE Strict(LAMBDA b : IF b.ub THEN b ELSE [ub |-> FALSE, lv |-> b.lv \ {p}],
                     destroy(nd, a.lv, nd[p].right, fuel - 1)),
         destroy(nd, lv, nd[p].left, fuel - 1))

\* clear with the reset of the root lost: the nodes are deleted and the
\* header keeps pointing at the deleted root
clear_fn_keep_root(nd, lv, t) ==
  LET h == _header_ptr(t) IN
  IF nd[h].father = h THEN [ub |-> FALSE, nd |-> nd, lv |-> lv]
  ELSE LET d == destroy(nd, lv, nd[h].father, Fuel) IN
       IF d.ub THEN [ub |-> TRUE, nd |-> nd, lv |-> lv]
       ELSE [ub |-> FALSE,
             nd |-> [x \in DOMAIN nd |-> IF x \in lv \ d.lv THEN Blank ELSE nd[x]],
             lv |-> d.lv]

\* bstree::clear as a function of the heap: [ub, nd, lv]
clear_fn(nd, lv, t) ==
  LET h == _header_ptr(t) IN
  IF nd[h].father = h THEN [ub |-> FALSE, nd |-> nd, lv |-> lv]
  ELSE LET d == destroy(nd, lv, nd[h].father, Fuel) IN
       IF d.ub THEN [ub |-> TRUE, nd |-> nd, lv |-> lv]
       ELSE [ub |-> FALSE,
             nd |-> [x \in DOMAIN nd |->
                       IF x = h THEN [nd[h] EXCEPT !.father = h]
                       ELSE IF x \in lv \ d.lv THEN Blank
                       ELSE nd[x]],
             lv |-> d.lv]

clear(t) ==
  LET c == clear_fn(node, live, t) IN
  /\ status = "ok"
  /\ last' = [op |-> "clear", t |-> t, v |-> 0, stored |-> FALSE]
  /\ UNCHANGED _size
  /\ IF c.ub
     THEN /\ status' = "ub"
          /\ UNCHANGED <<node, live, contents, built>>
     ELSE /\ node' = c.nd
          /\ live' = c.lv
          /\ status' = "ok"
          /\ contents' = [contents EXCEPT ![t] = {}]
          /\ built' = built_clear(t)

\* bstree::~bstree as a function of the heap: [ub, lv, hdr]; hdr says that
\* the header was released
destructor_fn(nd, lv, t) ==
  LET h == _header_ptr(t)
      c == clear_fn(nd, lv, t)
      nd1 == [c.nd EXCEPT ![h].left = NULL, ![h].right = NULL]
      L == destroy(nd1, c.lv, nd1[h].left, Fuel)
      R == destroy(nd1, L.lv, nd1[h].right, Fuel)
  IN IF c.ub \/ L.ub \/ R.ub
     THEN [ub |-> TRUE, lv |-> lv, hdr |-> FALSE]
     ELSE [ub |-> FALSE, lv |-> R.lv, hdr |-> TRUE]

\* ------------------------------------------------------------------ find
\* what a header's never-initialised data may read as
HeaderData == 0..MaxVal

\* what _ptr->data reads as; a header's data is never initialised (hd)
data_of(nd, _ptr, hd) == IF _ptr \in Trees THEN hd ELSE nd[_ptr].data

\* the while loop of find
RECURSIVE find_loop(_, _, _, _, _, _)
find_loop(nd, lv, _val, _ptr, hd, fuel) ==
  IF _ptr = NULL THEN [st |-> "ok", p |-> NULL]
  ELSE IF ~Valid(_ptr, lv) THEN [st |-> "ub", p |-> _ptr]
  ELSE IF fuel = 0 THEN [st |-> "hang", p |-> _ptr]
  ELSE IF _val = data_of(nd, _ptr, hd) THEN [st |-> "ok", p |-> _ptr]
  ELSE Strict(LAMBDA q : find_loop(nd, lv, _val, q, hd, fuel - 1),
              IF _val < data_of(nd, _ptr, hd) THEN nd[_ptr].left ELSE nd[_ptr].right)

\* bstree::find: [st, p]; st is "ok", "ub" or "hang" (the loop never ends)
find(t, _val, hd) ==
  Strict(LAMBDA r : IF r.st = "ok" /\ r.p = NULL THEN [st |-> "ok", p |-> end(t)] ELSE r,
         find_loop(node, live, _val, _root(t), hd, Fuel))

\* -------------------------------------------------------------- iterator
\* operator++ and operator-- write `this->ptr`; the member is declared `_ptr`
\* (line 47) and that is the member modelled.  The result of a step is
\* [st, p]: st is "ok", "ub" (an invalid pointer was dereferenced) or "hang"
\* (the walk revisits a cell and so never ends).
\* operator++: while ((*this)->left != nullptr) ptr = (*this)->left
RECURSIVE inc_walk_left(_, _, _, _)
inc_walk_left(nd, lv, p, fuel) ==
  IF ~Valid(p, lv) THEN [st |-> "ub", p |-> p]
  ELSE IF fuel = 0 THEN [st |-> "hang", p |-> p]
  ELSE IF nd[p].left # NULL THEN inc_walk_left(nd, lv, nd[p].left, fuel - 1)
  ELSE [st |-> "ok", p |-> p]

\* operator++: while (prev == (*this)->right) { prev = ptr; ptr = father }
RECURSIVE inc_climb(_, _, _, _, _)
inc_climb(nd, lv, prev, p, fuel) ==
  IF ~Valid(p, lv) THEN [st |-> "ub", p |-> p]
  ELSE IF fuel = 0 THEN [st |-> "hang", p |-> p]
  ELSE IF prev = nd[p].right THEN inc_climb(nd, lv, p, nd[p].father, fuel - 1)
  ELSE [st |-> "ok", p |-> p]

\* bst_iterator::operator++ on an iterator at p
increment(p) ==
  IF ~Valid(p, live) THEN [st |-> "ub", p |-> p]
  ELSE IF node[p].right # NULL THEN inc_walk_left(node, live, node[p].right, Fuel)
  ELSE inc_climb(node, live, p, node[p].father, Fuel * Fuel)

\* operator--: while ((*this)->right != nullptr) ptr = (*this)->right
RECURSIVE dec_walk_right(_, _, _, _)
dec_walk_right(nd, lv, p, fuel) ==
  IF ~Valid(p, lv) THEN [st |-> "ub", p |-> p]
  ELSE IF fuel = 0 THEN [st |-> "hang", p |-> p]
  ELSE IF nd[p].right # NULL THEN dec_walk_right(nd, lv, nd[p].right, fuel - 1)
  ELSE [st |-> "ok", p |-> p]

\* operator--: while (prev == (*this)->left) { prev = ptr; ptr = father }
RECURSIVE dec_climb(_, _, _, _, _)
dec_climb(nd, lv, prev, p, fuel) ==
  IF ~Valid(p, lv) THEN [st |-> "ub", p |-> p]
  ELSE IF fuel = 0 THEN [st |-> "hang", p |-> p]
  ELSE IF prev = nd[p].left THEN dec_climb(nd, lv, p, nd[p].father, fuel - 1)
  ELSE [st |-> "ok", p |-> p]

\* bst_iterator::operator-- on an iterator at p
decrement(p) ==
  IF ~Valid(p, live) THEN [st |-> "ub", p |-> p]
  ELSE IF node[p].left # NULL THEN dec_walk_right(node, live, node[p].left, Fuel)
  ELSE dec_climb(node, live, p, node[p].father, Fuel * Fuel)

\* for (it = begin(); it != end(); ++it) collect *it : [st, seq]
RECURSIVE ascend(_, _, _, _)
ascend(t, p, acc, fuel) ==
  IF p = end(t) THEN [st |-> "ok", seq |-> acc]
  ELSE IF ~Valid(p, live) THEN [st |-> "ub", seq |-> acc]
  ELSE IF fuel = 0 THEN [st |-> "hang", seq |-> acc]
  ELSE Strict(LAMBDA n :
         IF n.st # "ok" THEN [st |-> n.st, seq |-> Append(acc, node[p].data)]
         ELSE ascend(t, n.p, Append(acc, node[p].data), fuel - 1),
         increment(p))

traverse(t) == ascend(t, begin(t), <<>>, Fuel)

\* it = end(); then k times: --it, collect *it : [st, seq]
RECURSIVE descend(_, _, _, _)
descend(t, p, acc, k) ==
  IF k = 0 THEN [st |-> "ok", seq |-> acc]
  ELSE Strict(LAMBDA n :
         IF n.st # "ok" THEN [st |-> n.st, seq |-> acc]
         ELSE IF ~Valid(n.p, live) THEN [st |-> "ub", seq |-> acc]
         ELSE descend(t, n.p, Append(acc, node[n.p].data), k - 1),
         decrement(p))

\* bstree::front / bstree::back: [st, v]
front(t) ==
  IF Valid(_left_most(t), live)
  THEN [st |-> "ok", v |-> node[_left_most(t)].data]
  ELSE [st |-> "ub", v |-> 0]

back(t) ==
  IF Valid(_right_most(t), live)
  THEN [st |-> "ok", v |-> node[_right_most(t)].data]
  ELSE [st |-> "ub", v |-> 0]

\* ------------------------------------------------------- copy assignment
\* nodes below p, following the links that point at objects
RECURSIVE reach(_, _, _, _)
reach(nd, lv, p, fuel) ==
  IF p \notin lv \/ fuel = 0 THEN {}
  ELSE {p} \cup reach(nd, lv, nd[p].left, fuel - 1)
           \cup reach(nd, lv, nd[p].right, fuel - 1)

\* the k lowest free addresses
FirstFree(lv, k, t) ==
  {x \in Arena(t) \ lv : Cardinality({y \in Arena(t) \ lv : y < x}) < k}

\* what the cells in F hold before an object is constructed in them
Oracles(F) ==
  {[x \in RealIds |-> IF x \in F THEN g[x] ELSE <<NULL, NULL>>] :
     g \in [F -> ZeroOrGarbage]}

\* new bst_node(other, pf): [st, nd, lv, id]; left/right are assigned only
\* where other has a child, and are left as the cell held them otherwise
RECURSIVE bst_node_copy(_, _, _, _, _, _, _)
RECURSIVE bst_node_copy_child(_, _, _, _, _, _)

\* if (other.<side>) { <side> = new bst_node(*other.<side>, this); }
\* s is the construction so far, s.id the node under construction
bst_node_copy_child(s, other, side, mem, fuel, t) ==
  LET oc == s.nd[other][side] IN
  IF oc = NULL THEN s
  ELSE IF ~Valid(oc, s.lv) THEN [st |-> "ub", nd |-> s.nd, lv |-> s.lv, id |-> NULL]
  ELSE Strict(LAMBDA c :
         IF c.st # "ok" THEN c
         ELSE [st |-> "ok", nd |-> [c.nd EXCEPT ![s.id][side] = c.id],
               lv |-> c.lv, id |-> s.id],
         bst_node_copy(s.nd, s.lv, oc, s.id, mem, fuel - 1, t))

bst_node_copy(nd, lv, other, pf, mem, fuel, t) ==
  IF Arena(t) \ lv = {} THEN [st |-> "oom", nd |-> nd, lv |-> lv, id |-> NULL]
  ELSE IF fuel = 0 THEN [st |-> "hang", nd |-> nd, lv |-> lv, id |-> NULL]
  ELSE Strict(LAMBDA n :
         Strict(LAMBDA L :
                  IF L.st # "ok" THEN L
                  ELSE bst_node_copy_child(L, other, "right", mem, fuel, t),
                bst_node_copy_child(
                  [st |-> "ok",
                   nd |-> [nd EXCEPT ![n] = [data |-> nd[other].data, father |-> pf,
                                             left |-> mem[n][1], right |-> mem[n][2]]],
                   lv |-> lv \cup {n},
                   id |-> n],
                  other, "left", mem, fuel, t)),
         Alloc(lv, t))

\* operator= handing the clone of the root the source's header as its father
assign_fn_src_header(nd, lv, dst, src, mem) ==
  IF dst = src THEN [st |-> "ok", nd |-> nd, lv |-> lv]
  ELSE LET c == clear_fn(nd, lv, dst) IN
       IF c.ub THEN [st |-> "ub", nd |-> nd, lv |-> lv]
       ELSE IF c.nd[_header_ptr(src)].father = _header_ptr(src)
            THEN [st |-> "ok", nd |-> c.nd, lv |-> c.lv]
       ELSE Strict(LAMBDA r :
              IF r.st # "ok" THEN [st |-> r.st, nd |-> nd, lv |-> lv]
              ELSE [st |-> "ok",
                    nd |-> [r.nd EXCEPT ![_header_ptr(dst)].father = r.id],
                    lv |-> r.lv],
              bst_node_copy(c.nd, c.lv, c.nd[_header_ptr(src)].father,
                            _header_ptr(src), mem, Fuel, dst))

\* bstree::operator=(const bstree &) as a function of the heap
assign_fn(nd, lv, dst, src, mem) ==
  IF dst = src THEN [st |-> "ok", nd |-> nd, lv |-> lv]
  ELSE LET c == clear_fn(nd, lv, dst) IN
       IF c.ub THEN [st |-> "ub", nd |-> nd, lv |-> lv]
       ELSE IF c.nd[_header_ptr(src)].father = _header_ptr(src)
            THEN [st |-> "ok", nd |-> c.nd, lv |-> c.lv]
       ELSE Strict(LAMBDA r :
              IF r.st # "ok" THEN [st |-> r.st, nd |-> nd, lv |-> lv]
              ELSE [st |-> "ok",
                    nd |-> [r.nd EXCEPT ![_header_ptr(dst)].father = r.id],
                    lv |-> r.lv],
              bst_node_copy(c.nd, c.lv, c.nd[_header_ptr(src)].father,
                            _header_ptr(dst), mem, Fuel, dst))

\* the cells a copy of src's nodes into dst will be constructed in
assign_cells(dst, src) ==
  LET c == clear_fn(node, live, dst) IN
  IF dst = src THEN {}
  ELSE FirstFree(c.lv, Cardinality(reach(node, live, _root(src), Fuel)), dst)

assign(dst, src, mem) ==
  LET r == assign_fn(node, live, dst, src, mem) IN
  /\ status = "ok"
  /\ r.st # "oom"
  /\ last' = [op |-> "assign", t |-> dst, v |-> src, stored |-> FALSE]
  /\ UNCHANGED _size
  /\ IF r.st # "ok"
     THEN /\ status' = "ub"
          /\ UNCHANGED <<node, live, contents, built>>
     ELSE /\ node' = r.nd
          /\ live' = r.lv
          /\ status' = "ok"
          /\ contents' = [contents EXCEPT ![dst] = contents[src]]
          /\ built' = built_assign(dst, src)

\* ------------------------------------------------------ move construction
\* new bst_node(std::move(*other), pf): the constructor's body dereferences
\* left and right without a test (line 32).  (pf is a pointer to const and
\* father is not; the constructor is never instantiated by the header.)
\* The new node is a free-standing object, placed in tree 2's arena.
move_node(other, pf) ==
  LET n == Alloc(live, 2)
      L == node[other].left
      R == node[other].right
  IN
  /\ status = "ok"
  /\ other \in live
  /\ Arena(2) \ live # {}
  /\ last' = [op |-> "move", t |-> n, v |-> other, stored |-> FALSE]
  /\ UNCHANGED <<_size, contents, built>>
  /\ IF ~Valid(R, live) \/ ~Valid(L, live)
     THEN /\ status' = "ub"
          /\ UNCHANGED <<node, live>>
     ELSE /\ node' = [x \in DOMAIN node |->
                       IF x = n THEN [data |-> node[other].data, father |-> pf,
                                      left |-> L, right |-> R]
                       ELSE IF x = other THEN [node[x] EXCEPT !.left = NULL, !.right = NULL]
                       ELSE IF x = L \/ x = R THEN [node[x] EXCEPT !.father = n]
                       ELSE node[x]]
          /\ live' = live \cup {n}
          /\ status' = "ok"

\* ------------------------------------------------------------------ spec
\* bstree(): the header's three links point at the header itself
Init ==
  /\ node = [x \in Trees \cup RealIds |->
               IF x \in Trees
               THEN [data |-> 0, father |-> x, left |-> x, right |-> x]
               ELSE Blank]
  /\ live = {}
  /\ _size = [t \in Trees |-> 0]
  /\ status = "ok"
  /\ last = [op |-> "init", t |-> 0, v |-> 0, stored |-> FALSE]
  /\ contents = [t \in Trees |-> {}]
  /\ built = [t \in Trees |-> "new"]

\* one tree: insert and clear
Next ==
  \/ \E _val \in Values, c \in AnyCell : insert(1, _val, c[1], c[2])
  \/ clear(1)

Spec == Init /\ [][Next]_vars

\* two trees: insert, clear and copy assignment
NextCopy ==
  \/ \E t \in Trees, _val \in CopyValues, c \in ZeroOrGarbage :
       insert(t, _val, c[1], c[2])
  \/ \E t \in Trees : clear(t)
  \/ \E dst \in Trees, src \in Trees :
       \E mem \in Oracles(assign_cells(dst, src)) : assign(dst, src, mem)

SpecCopy == Init /\ [][NextCopy]_vars

\* two trees: insert into either, copy assignment into tree 2 (from tree 1
\* or from itself)
NextLink ==
  \/ \E t \in Trees, _val \in CopyValues, c \in ZeroOrGarbage :
       insert(t, _val, c[1], c[2])
  \/ \E src \in Trees :
       \E mem \in Oracles(assign_cells(2, src)) : assign(2, src, mem)

SpecLink == Init /\ [][NextLink]_vars

\* one tree whose nodes are also move-constructed from
NextMove ==
  \/ \E _val \in Values, c \in AnyCell : insert(1, _val, c[1], c[2])
  \/ \E other \in RealIds, pf \in {NULL, _header_ptr(1)} : move_node(other, pf)

SpecMove == Init /\ [][NextMove]_vars

\* the link words of the node tree 2's last insert constructed, i.e. what
\* the same memory holds when the same insert is run on tree 1
replay_cell ==
  LET S == live \cap Arena(2) IN
  IF last.stored \/ S = {} THEN <<NULL, NULL>>
  ELSE LET n == CHOOSE x \in S : \A y \in S : y <= x IN <<node[n].left, node[n].right>>

\* tree 1: inserts, one clear() of the non-empty tree, then the inserts that
\* a newly constructed tree 2 receives, each repeated on tree 1
NextClear ==
  \/ \E _val \in Values, c \in AnyCell :
       built[1] # "mixed" /\ insert(1, _val, c[1], c[2])
  \/ built[1] # "mixed" /\ ~empty(1) /\ clear(1)
  \/ \E _val \in Values, c \in AnyCell :
       /\ built[1] = "mixed"
       /\ ~(last.op = "insert" /\ last.t = 2)
       /\ insert(2, _val, c[1], c[2])
  \/ /\ built[1] = "mixed"
     /\ last.op = "insert" /\ last.t = 2
     /\ insert(1, last.v, replay_cell[1], replay_cell[2])

SpecClear == Init /\ [][NextClear]_vars

\* ------------------------------------------------------------ properties
SetMin(S) == CHOOSE x \in S : \A y \in S : x <= y
SetMax(S) == CHOOSE x \in S : \A y \in S : x >= y

RECURSIVE Ascending(_)
Ascending(S) == IF S = {} THEN <<>> ELSE <<SetMin(S)>> \o Ascending(S \ {SetMin(S)})

Reverse(s) == [i \in 1..Len(s) |-> s[Len(s) + 1 - i]]

\* every uninitialised link so far happened to read as nullptr
NoJunk == \A x \in Trees \cup live : node[x].left # JUNK /\ node[x].right # JUNK

OnlyInserts(t) == built[t] \in {"distinct", "inserts"}

\* C1: after inserting distinct values into a new tree, the traversal from
\* begin() by ++ up to end() terminates, yields the stored values in
\* ascending order, each once, and as many of them as size() says.
C1_AscendingTraversal ==
  (status = "ok" /\ built[1] = "distinct" /\ NoJunk) =>
    LET r == traverse(1) IN
      /\ r.st = "ok"
      /\ r.seq = Ascending(contents[1])
      /\ Len(r.seq) = size(1)

\* C2: in a non-empty tree built by inserts, front() is the minimum and
\* back() the maximum of the stored values.
C2_FrontBackAreExtrema ==
  (status = "ok" /\ OnlyInserts(1) /\ NoJunk) =>
    /\ front(1) = [st |-> "ok", v |-> SetMin(contents[1])]
    /\ back(1) = [st |-> "ok", v |-> SetMax(contents[1])]

\* C3: after any inserts, clears and copy assignments, size() is the number
\* of real nodes reachable from the root.
C3_SizeCountsNodes ==
  status = "ok" =>
    \A t \in Trees : size(t) = Cardinality(reach(node, live, _root(t), Fuel))

\* C4: inserting a value that is already stored changes nothing: no node is
\* created, no node, link or header field changes, size() stays, and find
\* answers as before for every value.
C4_DuplicateInsertIsNoOp ==
  [][(last'.op = "insert" /\ last'.stored) =>
       /\ status' = "ok"
       /\ node' = node
       /\ live' = live
       /\ _size' = _size
       /\ \A t \in Trees : last'.t = t =>
            \A w \in Values, hd \in HeaderData : find(t, w, hd)' = find(t, w, hd)]_vars

\* C4 witness: a stored value below the root was inserted again
C4_Witness ==
  /\ status = "ok"
  /\ last.op = "insert"
  /\ last.stored
  /\ last.v # node[_root(last.t)].data
  /\ Cardinality(contents[last.t]) >= 3

\* C5: in a tree built by inserts, find(v) returns the node holding v when v
\* was inserted and end() when it was not.
C5_FindAnswers ==
  (status = "ok" /\ OnlyInserts(1)) =>
    \A v \in Values, hd \in HeaderData :
      LET f == find(1, v, hd) IN
        /\ f.st = "ok"
        /\ IF v \in contents[1]
           THEN f.p \in live /\ node[f.p].data = v
           ELSE f.p = end(1)

\* C6: on an empty tree, new or emptied by clear(), find terminates and
\* returns end().
C6_FindOnEmptyTree ==
  (status = "ok" /\ empty(1)) =>
    \A v \in Values, hd \in HeaderData :
      find(1, v, hd) = [st |-> "ok", p |-> end(1)]

\* C7: in a non-empty tree built by inserts, decrementing from end() once per
\* stored value yields the values in descending order, and the first
\* decrement lands on the maximum.
C7_DescendingTraversal ==
  (status = "ok" /\ OnlyInserts(1) /\ NoJunk) =>
    LET d == descend(1, end(1), <<>>, Cardinality(contents[1]))
        f == decrement(end(1))
    IN /\ d.st = "ok"
       /\ d.seq = Reverse(Ascending(contents[1]))
       /\ f.st = "ok"
       /\ f.p \in live
       /\ node[f.p].data = SetMax(contents[1])

\* C8: whenever empty() is true, begin() equals end().
C8_EmptyBeginIsEnd ==
  (status = "ok" /\ empty(1)) => begin(1) = end(1)

\* C9: right after dst = src (two distinct trees), dst has src's size() and
\* its traversal yields src's values in order.
C9_CopySameSequence ==
  (status = "ok" /\ last.op = "assign" /\ last.t # last.v /\ NoJunk) =>
    /\ size(last.t) = size(last.v)
    /\ traverse(last.t) = [st |-> "ok", seq |-> Ascending(contents[last.v])]

\* C10: after dst = src no node is reachable from both trees, and an insert
\* or clear on one of the two trees completes and leaves the other tree's
\* header, nodes and size as they were.
C10_CopyIndependent ==
  [][(last.op = "assign" /\ last.t # last.v) =>
       /\ reach(node, live, _root(1), Fuel) \cap reach(node, live, _root(2), Fuel) = {}
       /\ \A t \in Trees :
            (last'.op \in {"insert", "clear"} /\ last'.t = t) =>
              /\ status' = "ok"
              /\ _size'[3 - t] = _size[3 - t]
              /\ \A x \in {3 - t} \cup Arena(3 - t) :
                   node'[x] = node[x] /\ (x \in live' <=> x \in live)]_vars

\* the node of tree t that holds value v (none: NULL)
holder(t, v) ==
  LET S == {n \in reach(node, live, _root(t), Fuel) : node[n].data = v} IN
  IF S = {} THEN NULL ELSE CHOOSE n \in S : TRUE

\* C11: in a non-empty tree built by inserts (a one-node tree included),
\* incrementing an iterator at the node holding the maximum yields end().
C11_IncrementAtMaxIsEnd ==
  (status = "ok" /\ OnlyInserts(1) /\ NoJunk) =>
    increment(holder(1, SetMax(contents[1]))) = [st |-> "ok", p |-> end(1)]

\* C12: in a tree built by inserts, incrementing an iterator at a node that
\* does not hold the maximum terminates at the node holding the smallest
\* stored value greater than that node's value.
C12_IncrementIsSuccessor ==
  (status = "ok" /\ OnlyInserts(1)) =>
    \A v \in contents[1] \ {SetMax(contents[1])} :
      LET r == increment(holder(1, v)) IN
        /\ r.st = "ok"
        /\ r.p \in live
        /\ node[r.p].data = SetMin({w \in contents[1] : w > v})

\* C13: after every insert, clear and copy assignment the header's right
\* link is the leftmost descendant of the root and its left link the
\* rightmost one, and both are the header itself when the tree is empty.
C13_CachesExact ==
  (status = "ok" /\ NoJunk) =>
    \A t \in Trees :
      IF empty(t)
      THEN _left_most(t) = _header_ptr(t) /\ _right_most(t) = _header_ptr(t)
      ELSE /\ inc_walk_left(node, live, _root(t), Fuel) = [st |-> "ok", p |-> _left_most(t)]
           /\ dec_walk_right(node, live, _root(t), Fuel) = [st |-> "ok", p |-> _right_most(t)]

\* C14: after any sequence of inserts, repeated values included, every value
\* in a node's left subtree is less than the node's value, every value in its
\* right subtree is greater, and no value is stored in two nodes.
C14_BstOrdering ==
  /\ \A n \in live :
       /\ \A m \in reach(node, live, node[n].left, Fuel) : node[m].data < node[n].data
       /\ \A m \in reach(node, live, node[n].right, Fuel) : node[m].data > node[n].data
  /\ \A n \in live, m \in live : n # m => node[n].data # node[m].data

\* C14 witness: a node with two children, in a tree that was also given a
\* value it already held
C14_Witness ==
  /\ status = "ok"
  /\ built[1] = "inserts"
  /\ \E n \in live : node[n].left \in live /\ node[n].right \in live

\* C15: after any inserts and copy assignments, every real node other than
\* the root is the left or the right child of the node its father link names,
\* and the root's father link names its own tree's header (for a copy, the
\* destination's header).
C15_ParentBackLinks ==
  \A t \in Trees :
    \A n \in live \cap Arena(t) :
      IF n = _root(t)
      THEN node[n].father = _header_ptr(t)
      ELSE /\ node[n].father \in live \cap Arena(t)
           /\ node[node[n].father].left = n \/ node[node[n].father].right = n

\* C15 witness: a tree of at least two nodes was just copied into the other
\* tree
C15_Witness ==
  /\ status = "ok"
  /\ last.op = "assign"
  /\ last.t # last.v
  /\ Cardinality(live \cap Arena(last.t)) >= 2
  /\ _root(last.t) \in Arena(last.t)

\* C16: for any inserts, clears and copy assignments followed by destruction,
\* every node is freed exactly once: clear() frees all real nodes of its tree,
\* and the destructor completes, leaves no real node of the tree allocated and
\* frees the header.
C16_EveryNodeFreedOnce ==
  /\ last.op = "clear" => (status = "ok" /\ live \cap Arena(last.t) = {})
  /\ status = "ok" =>
       \A t \in Trees :
         LET d == destructor_fn(node, live, t) IN
           ~d.ub /\ d.hdr /\ d.lv \cap Arena(t) = {}

\* the subtree at clone c has the shape and values of the subtree at source
\* s, its links to children are none where s has none, and c's father is pf
RECURSIVE same_shape(_, _, _, _, _)
same_shape(s, c, pf, lv, fuel) ==
  /\ fuel > 0
  /\ s \in lv
  /\ c \in lv
  /\ node[c].data = node[s].data
  /\ node[c].father = pf
  /\ IF node[s].left = NULL THEN node[c].left = NULL
     ELSE same_shape(node[s].left, node[c].left, c, lv, fuel - 1)
  /\ IF node[s].right = NULL THEN node[c].right = NULL
     ELSE same_shape(node[s].right, node[c].right, c, lv, fuel - 1)

\* C17: copy-constructing a node from a subtree yields a subtree of the same
\* shape: a clone has a left (right) child exactly where the source node has
\* one and none where it has none, values are equal, each clone child's
\* father is its clone parent and the top clone's father is the given one.
C17_CopyKeepsShape ==
  (status = "ok" /\ last.op = "assign" /\ last.t # last.v /\ ~empty(last.v)) =>
    same_shape(_root(last.v), _root(last.t), _header_ptr(last.t), live, Fuel)

\* C18: move-constructing a node from a source with two, one or no children
\* completes without accessing an absent node; afterwards the new node's
\* left and right are the source's former left and right, each present
\* child's father is the new node, and the source's left and right are none.
C18_MoveIsSafe ==
  [][(/\ last'.op = "move"
       /\ node[last'.v].left \in {NULL} \cup live
       /\ node[last'.v].right \in {NULL} \cup live) =>
       /\ status' = "ok"
       /\ node'[last'.t].left = node[last'.v].left
       /\ node'[last'.t].right = node[last'.v].right
       /\ \A c \in {node[last'.v].left, node[last'.v].right} \cap live :
            node'[c].father = last'.t
       /\ node'[last'.v].left = NULL
       /\ node'[last'.v].right = NULL]_vars

\* C19: in a tree built by inserts, ++ then -- from a node that does not hold
\* the maximum comes back to that node, and -- then ++ from a node that does
\* not hold the minimum comes back to that node.
C19_IncDecInverse ==
  (status = "ok" /\ OnlyInserts(1)) =>
    \A v \in contents[1] :
      /\ v # SetMax(contents[1]) =>
           LET i == increment(holder(1, v)) IN
             i.st = "ok" /\ decrement(i.p) = [st |-> "ok", p |-> holder(1, v)]
      /\ v # SetMin(contents[1]) =>
           LET d == decrement(holder(1, v)) IN
             d.st = "ok" /\ increment(d.p) = [st |-> "ok", p |-> holder(1, v)]

\* the address in tree 1 that corresponds to address p of tree 2
twin(p) == IF p = _header_ptr(2) THEN _header_ptr(1)
           ELSE IF p \in Arena(2) THEN p - MaxNodes
           ELSE p

\* tree 1 and tree 2 have the same root, nodes, values, links and header
\* links, node for node
SameTree ==
  \A x \in {_header_ptr(2)} \cup Arena(2) :
    /\ x \in live <=> twin(x) \in live
    /\ node[twin(x)] = [data |-> node[x].data, father |-> twin(node[x].father),
                        left |-> twin(node[x].left), right |-> twin(node[x].right)]

====
